---- MODULE Spec2Model ----
(***************************************************************************)
(* SkyCast Analytics (src/app.py): a Streamlit script that geocodes two    *)
(* city names, fetches each city's daily maximum temperatures for a date   *)
(* range, and renders two average metrics, a chart and a data table.       *)
(*                                                                         *)
(* The model follows one server process.  Each script run that presses     *)
(* "Generate Comparison" is a chain of steps (geocode A, geocode B, fetch  *)
(* A, fetch B, render); the two st.cache_data memo tables outlive the run. *)
(* The upstream services are the environment: every request may fail, or   *)
(* answer with any body drawn from the bounded sets below.                 *)
(***************************************************************************)
EXTENDS Integers, Sequences, FiniteSets, TLC

VARIABLES
    geoCache,     \* st.cache_data table of get_city_coordinates: name -> result
    wxCache,      \* st.cache_data table of get_historical_weather: args -> DataFrame
    geoReqs,      \* history: requests.get calls issued to the geocoding service, per name
    wxReqs,       \* history: requests.get calls issued to the archive service, per args
    geoFailed,    \* history: names whose geocoding request raised inside the try block
    wxFailed,     \* history: args whose weather request raised inside the try block
    runs,         \* script runs started in this process
    pc,           \* position of the current script run
    city_a, city_b, date_range,      \* widget values of the current run
    coords_a, coords_b,              \* line 88, 89
    df_a, df_b,                      \* line 93, 94
    df_combined,                     \* line 111
    out,          \* elements emitted by the current run, in order
    runWxCalls    \* history: get_historical_weather calls made by the current run

vars == <<geoCache, wxCache, geoReqs, wxReqs, geoFailed, wxFailed, runs, pc,
          city_a, city_b, date_range, coords_a, coords_b, df_a, df_b, df_combined,
          out, runWxCalls>>

-----------------------------------------------------------------------------
(* Bounds of the model *)

MaxRuns == 1      \* script runs per process (Spec)
MaxLen == 2       \* rows of a fetched series (SpecTable)
MaxDate == 2      \* calendar days are 1..MaxDate

-----------------------------------------------------------------------------
(* Values *)

\* Python's None
None == [py |-> "None"]

\* An empty dict / an empty function
EmptyDict == [k \in {} |-> 0]

\* City names are strings, modelled as sequences of characters.
CityNames == { <<>>, <<" ", " ">>, <<"L">>, <<"A">> }

Dates == 1 .. MaxDate

\* The value of st.date_input: a tuple of one date (range half picked) or two.
DateRanges == { <<1>>, <<1, MaxDate>>, <<MaxDate, 1>> }

\* A null entry of temperature_2m_max, and a reading in degrees Celsius.
Null == [null |-> TRUE]
Reading(c) == [celsius |-> c]
Temps == { Null, Reading(10) }

SeqsUpTo(S, n) == UNION { [1 .. k -> S] : k \in 0 .. n }

-----------------------------------------------------------------------------
(* The upstream services.  A response is what requests.get hands back, or  *)
(* the exception it raises.                                                *)

\* requests.get raises (DNS, connection, timeout)
NetFail == [error |-> "ConnectionError"]
\* a non-2xx answer
HttpError == [status |-> 500]
\* a 2xx answer whose body is not JSON
BadJson == [status |-> 200, text |-> "<html>"]
\* a 2xx answer with the JSON object d
Json(d) == [status |-> 200, json |-> d]

\* Results of the geocoding service: well-formed places, and places with a
\* field missing.
Places == { [latitude |-> 51, longitude |-> 0], [latitude |-> 40, longitude |-> -74] }
BrokenPlaces == { [longitude |-> 0], [latitude |-> 51], EmptyDict }

GeoBodies ==
    { [generationtime_ms |-> 1], [results |-> <<>>] }
        \cup { [results |-> <<p>>] : p \in Places \cup BrokenPlaces }

GeoResponses == { NetFail, HttpError, BadJson } \cup { Json(d) : d \in GeoBodies }

\* Entries of the "time" array: day numbers, and 0 for a string that is no date.
TimeEntries == 0 .. MaxDate

\* Bodies of the archive service.  In the process model a response reports at
\* most one day; series of up to MaxLen days are the inputs of SpecTable.
WxBodies ==
    { [generationtime_ms |-> 1], [daily |-> [time |-> <<1>>]] }
        \cup { [daily |-> [time |-> ts, temperature_2m_max |-> vs]] :
                 ts \in SeqsUpTo(TimeEntries, 1), vs \in SeqsUpTo(Temps, 1) }

WxResponses == { NetFail, HttpError, BadJson } \cup { Json(d) : d \in WxBodies }

-----------------------------------------------------------------------------
(* Helper functions of app.py *)

\* Python truthiness of a str or a list: it is not empty
Truthy(v) == Len(v) > 0

\* Python truthiness of a value that is None or a dict
TruthyDict(v) == v # None /\ DOMAIN v # {}

\* requests.get / raise_for_status / response.json(): does one of them raise?
Raises(resp) ==
    \/ "error" \in DOMAIN resp
    \/ resp.status >= 400
    \/ "json" \notin DOMAIN resp

\* The body of get_city_coordinates, given the answer the service would give.
\* ret: the value returned; requested: whether requests.get was called;
\* raised: whether the except branch ran (it emits st.error).
get_city_coordinates(city_name, resp) ==
    IF ~Truthy(city_name)
    THEN [ret |-> None, requested |-> FALSE, raised |-> FALSE]
    ELSE IF Raises(resp)
    THEN [ret |-> None, requested |-> TRUE, raised |-> TRUE]
    ELSE LET data == resp.json IN
         IF "results" \in DOMAIN data /\ Truthy(data.results)
         THEN [ret |-> data.results[1], requested |-> TRUE, raised |-> FALSE]
         ELSE [ret |-> None, requested |-> TRUE, raised |-> FALSE]

\* pd.DataFrame(): no rows
EmptyFrame == <<>>

\* pd.to_datetime of one "time" entry raises on a string that is no date
ParsesAsDate(t) == t \in Dates

\* pd.DataFrame({"Date": time, "Max Temp (°C)": temps}) followed by to_datetime:
\* raises when the arrays differ in length or a date does not parse.
FrameRaises(daily) ==
    \/ "time" \notin DOMAIN daily
    \/ "temperature_2m_max" \notin DOMAIN daily
    \/ Len(daily.time) # Len(daily.temperature_2m_max)
    \/ \E i \in 1 .. Len(daily.time) : ~ParsesAsDate(daily.time[i])

MakeFrame(daily) ==
    [i \in 1 .. Len(daily.time) |->
        [Date |-> daily.time[i], MaxTemp |-> daily.temperature_2m_max[i]]]

\* The body of get_historical_weather, given the answer the service would give.
get_historical_weather(lat, lon, start_date, end_date, resp) ==
    IF Raises(resp)
    THEN [ret |-> EmptyFrame, raised |-> TRUE]
    ELSE LET data == resp.json IN
         IF "daily" \in DOMAIN data
         THEN IF FrameRaises(data.daily)
              THEN [ret |-> EmptyFrame, raised |-> TRUE]
              ELSE [ret |-> MakeFrame(data.daily), raised |-> FALSE]
         ELSE [ret |-> EmptyFrame, raised |-> FALSE]

\* DataFrame.empty
IsEmpty(df) == Len(df) = 0

\* Series.mean(): the mean of the present values as the exact fraction sum/n,
\* NaN when no value is present (missing values are skipped).
NaN == [nan |-> TRUE]

RECURSIVE SumPresent(_, _)
SumPresent(df, i) ==
    IF i = 0 THEN 0
    ELSE SumPresent(df, i - 1) + (IF df[i].MaxTemp = Null THEN 0 ELSE df[i].MaxTemp.celsius)

CountPresent(df) == Cardinality({ i \in 1 .. Len(df) : df[i].MaxTemp # Null })

Mean(df) ==
    IF CountPresent(df) = 0 THEN NaN
    ELSE [sum |-> SumPresent(df, Len(df)), n |-> CountPresent(df)]

\* f"{avg:.1f}": "nan" for NaN, otherwise the value rounded to tenths, ties to even
Format1f(avg) ==
    IF avg = NaN THEN [text |-> "nan"]
    ELSE LET q == (10 * avg.sum) \div avg.n
             r == (10 * avg.sum) % avg.n
         IN  [tenths |-> IF 2 * r > avg.n \/ (2 * r = avg.n /\ q % 2 = 1) THEN q + 1 ELSE q]

\* df["City"] = city
WithCity(df, city) ==
    [i \in 1 .. Len(df) |-> [Date |-> df[i].Date, MaxTemp |-> df[i].MaxTemp, City |-> city]]

\* Variant of Concat: rows of b whose date already occurs in a are dropped
\* (a merge keyed by date).
ConcatDistinctDates(a, b) ==
    a \o SelectSeq(b, LAMBDA r : \A i \in 1 .. Len(a) : a[i].Date # r.Date)

\* Variant of Concat: the concatenation re-sorted by date (stable).
RECURSIVE InsertByDate(_, _)
InsertByDate(row, s) ==
    IF Len(s) = 0 THEN <<row>>
    ELSE IF row.Date <= Head(s).Date THEN <<row>> \o s
    ELSE <<Head(s)>> \o InsertByDate(row, Tail(s))

RECURSIVE SortByDate(_)
SortByDate(s) == IF Len(s) = 0 THEN s ELSE InsertByDate(Head(s), SortByDate(Tail(s)))

ConcatSorted(a, b) == SortByDate(a \o b)

\* pd.concat([df_a, df_b]): the rows of df_a followed by the rows of df_b
Concat(a, b) == a \o b

\* Variant of BothResolved: "or" in place of "and"
EitherResolved(a, b) == TruthyDict(a) \/ TruthyDict(b)

\* line 91: if coords_a and coords_b
BothResolved(a, b) == TruthyDict(a) /\ TruthyDict(b)

\* Variant of HasData: "or" in place of "and"
HasSomeData(a, b) == ~IsEmpty(a) \/ ~IsEmpty(b)

\* line 96: if not df_a.empty and not df_b.empty
HasData(a, b) == ~IsEmpty(a) /\ ~IsEmpty(b)

\* coords["latitude"], coords["longitude"] raise KeyError on a missing key
HasLatLon(coords) == {"latitude", "longitude"} \subseteq DOMAIN coords

-----------------------------------------------------------------------------
(* Elements the script emits *)

GeoErrorMsg(city) == [el |-> "error", msg |-> "Error fetching coordinates for", city |-> city]
WxErrorMsg == [el |-> "error", msg |-> "Error fetching weather data"]
NotFoundMsg(city) == [el |-> "error", msg |-> "Could not find city", city |-> city]
NoDataMsg == [el |-> "warning", msg |-> "No weather data found for the selected range."]
IncompleteMsg == [el |-> "info", msg |-> "Please select a complete date range."]
Metric(city, avg) == [el |-> "metric", city |-> city, value |-> Format1f(avg)]
Chart(df) == [el |-> "plotly_chart", data |-> df]
DataTable(df) == [el |-> "dataframe", data |-> df]

-----------------------------------------------------------------------------
(* st.cache_data: a memo table keyed by the arguments.  An entry keeps the *)
(* returned value and the elements the call emitted; a hit returns the     *)
(* value and replays the elements, without running the function body.      *)

\* Variant of Cached: the table is never consulted
NeverCached(cache, key) == FALSE

Cached(cache, key) == key \in DOMAIN cache

\* Variant of Memoize: a call whose except branch ran is not stored
MemoizeSuccessOnly(cache, key, ret, msgs, raised) ==
    IF raised THEN cache
    ELSE [k \in DOMAIN cache \cup {key} |->
            IF k = key THEN [value |-> ret, msgs |-> msgs] ELSE cache[k]]

\* Every completed call is stored, whether or not its except branch ran
\* (raised): the function returns normally in both cases.
Memoize(cache, key, ret, msgs, raised) ==
    [k \in DOMAIN cache \cup {key} |->
        IF k = key THEN [value |-> ret, msgs |-> msgs] ELSE cache[k]]

\* The outcomes of calling the cached get_city_coordinates(name) now.
GeoCall(name) ==
    IF Cached(geoCache, name)
    THEN { [ret |-> geoCache[name].value, msgs |-> geoCache[name].msgs,
            cache |-> geoCache, requested |-> FALSE, raised |-> FALSE] }
    ELSE { LET r == get_city_coordinates(name, resp)
               msgs == IF r.raised THEN <<GeoErrorMsg(name)>> ELSE <<>>
           IN  [ret |-> r.ret, msgs |-> msgs,
                cache |-> Memoize(geoCache, name, r.ret, msgs, r.raised),
                requested |-> r.requested, raised |-> r.raised] :
           resp \in GeoResponses }

\* The outcomes of calling the cached get_historical_weather(*key) now.
WxCall(key) ==
    IF Cached(wxCache, key)
    THEN { [ret |-> wxCache[key].value, msgs |-> wxCache[key].msgs,
            cache |-> wxCache, requested |-> FALSE, raised |-> FALSE] }
    ELSE { LET r == get_historical_weather(key[1], key[2], key[3], key[4], resp)
               msgs == IF r.raised THEN <<WxErrorMsg>> ELSE <<>>
           IN  [ret |-> r.ret, msgs |-> msgs,
                cache |-> Memoize(wxCache, key, r.ret, msgs, r.raised),
                requested |-> TRUE, raised |-> r.raised] :
           resp \in WxResponses }

\* The argument tuples get_historical_weather can be called with.
WxKeys ==
    { <<p.latitude, p.longitude, r[1], r[2]>> :
        p \in Places, r \in { d \in DateRanges : Len(d) = 2 } }

WxKey(coords) == <<coords.latitude, coords.longitude, date_range[1], date_range[2]>>

-----------------------------------------------------------------------------
(* The process *)

Init ==
    /\ geoCache = EmptyDict
    /\ wxCache = EmptyDict
    /\ geoReqs = [n \in CityNames |-> 0]
    /\ wxReqs = [k \in WxKeys |-> 0]
    /\ geoFailed = {}
    /\ wxFailed = {}
    /\ runs = 0
    /\ pc = "idle"
    /\ city_a = <<>>
    /\ city_b = <<>>
    /\ date_range = <<1>>
    /\ coords_a = None
    /\ coords_b = None
    /\ df_a = EmptyFrame
    /\ df_b = EmptyFrame
    /\ df_combined = EmptyFrame
    /\ out = <<>>
    /\ runWxCalls = 0

caches == <<geoCache, wxCache, geoReqs, wxReqs, geoFailed, wxFailed>>
geoState == <<geoCache, geoReqs, geoFailed>>
wxState == <<wxCache, wxReqs, wxFailed>>
inputs == <<city_a, city_b, date_range, runs>>

\* A script run starts with the widget values a, b, dr and the button pressed
\* (lines 64-85).  With half a range picked the run only shows the hint of
\* line 147.
Rerun(a, b, dr) ==
    /\ pc \in {"idle", "done", "crashed"}
    /\ runs < MaxRuns
    /\ runs' = runs + 1
    /\ city_a' = a
    /\ city_b' = b
    /\ date_range' = dr
    /\ coords_a' = None
    /\ coords_b' = None
    /\ df_a' = EmptyFrame
    /\ df_b' = EmptyFrame
    /\ df_combined' = EmptyFrame
    /\ runWxCalls' = 0
    /\ IF Len(dr) = 2
       THEN out' = <<>> /\ pc' = "geocode_a"
       ELSE out' = <<IncompleteMsg>> /\ pc' = "done"
    /\ UNCHANGED caches

\* The effect of one get_city_coordinates call with outcome o.
GeoEffect(name, o) ==
    /\ geoCache' = o.cache
    /\ geoReqs' = IF o.requested THEN [geoReqs EXCEPT ![name] = @ + 1] ELSE geoReqs
    /\ geoFailed' = IF o.raised THEN geoFailed \cup {name} ELSE geoFailed
    /\ out' = out \o o.msgs

\* line 88
GeocodeA ==
    /\ pc = "geocode_a"
    /\ \E o \in GeoCall(city_a) :
          /\ coords_a' = o.ret
          /\ GeoEffect(city_a, o)
    /\ pc' = "geocode_b"
    /\ UNCHANGED <<wxState, inputs, coords_b, df_a, df_b, df_combined, runWxCalls>>

\* line 89
GeocodeB ==
    /\ pc = "geocode_b"
    /\ \E o \in GeoCall(city_b) :
          /\ coords_b' = o.ret
          /\ GeoEffect(city_b, o)
    /\ pc' = "resolved"
    /\ UNCHANGED <<wxState, inputs, coords_a, df_a, df_b, df_combined, runWxCalls>>

\* lines 141-145: a city was not resolved
ReportNotFound ==
    /\ pc = "resolved"
    /\ ~BothResolved(coords_a, coords_b)
    /\ out' = out \o (IF ~TruthyDict(coords_a) THEN <<NotFoundMsg(city_a)>> ELSE <<>>)
                  \o (IF ~TruthyDict(coords_b) THEN <<NotFoundMsg(city_b)>> ELSE <<>>)
    /\ pc' = "done"
    /\ UNCHANGED <<caches, inputs, coords_a, coords_b, df_a, df_b, df_combined, runWxCalls>>

\* The effect of one get_historical_weather call with outcome o.
WxEffect(key, o) ==
    /\ wxCache' = o.cache
    /\ wxReqs' = IF o.requested THEN [wxReqs EXCEPT ![key] = @ + 1] ELSE wxReqs
    /\ wxFailed' = IF o.raised THEN wxFailed \cup {key} ELSE wxFailed
    /\ out' = out \o o.msgs
    /\ runWxCalls' = runWxCalls + 1

\* line 93.  The subscripts coords_a["latitude"], coords_a["longitude"] are
\* evaluated outside any try block: a missing key ends the run with KeyError.
FetchA ==
    /\ pc = "resolved"
    /\ BothResolved(coords_a, coords_b)
    /\ IF HasLatLon(coords_a)
       THEN /\ \E o \in WxCall(WxKey(coords_a)) :
                  /\ df_a' = o.ret
                  /\ WxEffect(WxKey(coords_a), o)
            /\ pc' = "fetch_b"
       ELSE /\ pc' = "crashed"
            /\ UNCHANGED <<wxState, df_a, out, runWxCalls>>
    /\ UNCHANGED <<geoState, inputs, coords_a, coords_b, df_b, df_combined>>

\* line 94
FetchB ==
    /\ pc = "fetch_b"
    /\ IF HasLatLon(coords_b)
       THEN /\ \E o \in WxCall(WxKey(coords_b)) :
                  /\ df_b' = o.ret
                  /\ WxEffect(WxKey(coords_b), o)
            /\ pc' = "render"
       ELSE /\ pc' = "crashed"
            /\ UNCHANGED <<wxState, df_b, out, runWxCalls>>
    /\ UNCHANGED <<geoState, inputs, coords_a, coords_b, df_a, df_combined>>

\* lines 96-138: both frames have rows
RenderComparison ==
    /\ pc = "render"
    /\ HasData(df_a, df_b)
    /\ df_a' = WithCity(df_a, city_a)
    /\ df_b' = WithCity(df_b, city_b)
    /\ df_combined' = Concat(df_a', df_b')
    /\ out' = out \o << Metric(city_a, Mean(df_a)), Metric(city_b, Mean(df_b)),
                        Chart(df_combined'), DataTable(df_combined') >>
    /\ pc' = "done"
    /\ UNCHANGED <<caches, inputs, coords_a, coords_b, runWxCalls>>

\* lines 139-140: a frame has no rows
WarnNoData ==
    /\ pc = "render"
    /\ ~HasData(df_a, df_b)
    /\ out' = out \o <<NoDataMsg>>
    /\ pc' = "done"
    /\ UNCHANGED <<caches, inputs, coords_a, coords_b, df_a, df_b, df_combined, runWxCalls>>

Next ==
    \/ \E a \in CityNames, b \in CityNames, dr \in DateRanges : Rerun(a, b, dr)
    \/ GeocodeA
    \/ GeocodeB
    \/ ReportNotFound
    \/ FetchA
    \/ FetchB
    \/ RenderComparison
    \/ WarnNoData

Spec == Init /\ [][Next]_vars

-----------------------------------------------------------------------------
(* The render stage on arbitrary series.  SpecTable starts where line 96   *)
(* is reached in the first run of a process: two distinct cities resolved  *)
(* to two distinct places, and each fetch answered with any series of up   *)
(* to MaxLen rows.                                                         *)

Rows == [Date : Dates, MaxTemp : Temps]
Frames == SeqsUpTo(Rows, MaxLen)

InitTable ==
    \E fa \in Frames, fb \in Frames :
       LET pa == [latitude |-> 51, longitude |-> 0]
           pb == [latitude |-> 40, longitude |-> -74]
           ka == <<51, 0, 1, MaxDate>>
           kb == <<40, -74, 1, MaxDate>>
       IN  /\ city_a = <<"L">>
           /\ city_b = <<"A">>
           /\ date_range = <<1, MaxDate>>
           /\ coords_a = pa
           /\ coords_b = pb
           /\ geoCache = Memoize(Memoize(EmptyDict, <<"L">>, pa, <<>>, FALSE),
                                 <<"A">>, pb, <<>>, FALSE)
           /\ geoReqs = [n \in CityNames |-> IF n \in {<<"L">>, <<"A">>} THEN 1 ELSE 0]
           /\ wxCache = Memoize(Memoize(EmptyDict, ka, fa, <<>>, FALSE), kb, fb, <<>>, FALSE)
           /\ wxReqs = [k \in WxKeys |-> IF k \in {ka, kb} THEN 1 ELSE 0]
           /\ geoFailed = {}
           /\ wxFailed = {}
           /\ runs = 1
           /\ pc = "render"
           /\ df_a = fa
           /\ df_b = fb
           /\ df_combined = EmptyFrame
           /\ out = <<>>
           /\ runWxCalls = 2

NextTable == RenderComparison \/ WarnNoData

SpecTable == InitTable /\ [][NextTable]_vars

-----------------------------------------------------------------------------
(* Properties *)

IsNotFoundMsg(e) == e.el = "error" /\ e.msg = "Could not find city"
IsRendered(e) == e.el \in {"metric", "plotly_chart", "dataframe"}
Emitted(P(_)) == \E i \in 1 .. Len(out) : P(out[i])

\* str.strip() == "": the name is empty or holds only blanks
IsBlank(name) == \A i \in 1 .. Len(name) : name[i] = " "

\* The current run asked the geocoder about city A, got a valid answer without
\* a usable match, and city B is resolved.
AUnresolvedBResolved ==
    /\ Truthy(city_a)
    /\ city_a \in DOMAIN geoCache
    /\ city_a \notin geoFailed
    /\ pc \notin {"idle", "geocode_a", "geocode_b"}
    /\ ~TruthyDict(coords_a)
    /\ TruthyDict(coords_b)

\* C1: when city A gets a valid geocoder answer without a match and city B
\* resolves, the run goes from geocoding straight to its end: it makes no
\* get_historical_weather call, and what it has emitted at the end is exactly
\* one "Could not find city" message, naming city A.
C1_StopsAfterGeocoding ==
    AUnresolvedBResolved =>
        /\ pc \in {"resolved", "done"}
        /\ runWxCalls = 0
        /\ pc = "done" => out = <<NotFoundMsg(city_a)>>

C1_Witness ==
    /\ AUnresolvedBResolved
    /\ pc = "done"
    /\ city_a = <<"A">>
    /\ city_b = <<"L">>
    /\ geoReqs[city_a] = 1

\* C2: for every empty or blank city name, get_city_coordinates returns None
\* and no request is sent to the geocoding service.
C2_BlankNoRequest ==
    \A n \in CityNames :
        IsBlank(n) =>
            /\ geoReqs[n] = 0
            /\ n \in DOMAIN geoCache => geoCache[n].value = None

DatesOf(df) == { df[i].Date : i \in 1 .. Len(df) }
RowsOn(df, d) == Cardinality({ i \in 1 .. Len(df) : df[i].Date = d })
TableShown == pc = "done" /\ Emitted(LAMBDA e : e = DataTable(df_combined))

C4_Memoized ==
    /\ [](/\ \A n \in CityNames : geoReqs[n] <= 1 /\ (geoReqs[n] = 1 => n \in DOMAIN geoCache)
          /\ \A k \in WxKeys : wxReqs[k] <= 1 /\ (wxReqs[k] = 1 => k \in DOMAIN wxCache))
    /\ [][/\ \A n \in DOMAIN geoCache :
               /\ n \in DOMAIN geoCache'
               /\ geoCache'[n] = geoCache[n]
               /\ geoReqs'[n] = geoReqs[n]
          /\ \A k \in DOMAIN wxCache :
               /\ k \in DOMAIN wxCache'
               /\ wxCache'[k] = wxCache[k]
               /\ wxReqs'[k] = wxReqs[k]
          /\ (pc = "geocode_a" /\ city_a \in DOMAIN geoCache)
                => coords_a' = geoCache[city_a].value
          /\ (pc = "geocode_b" /\ city_b \in DOMAIN geoCache)
                => coords_b' = geoCache[city_b].value
          /\ (pc = "resolved" /\ pc' = "fetch_b" /\ WxKey(coords_a) \in DOMAIN wxCache)
                => df_a' = wxCache[WxKey(coords_a)].value
          /\ (pc = "fetch_b" /\ pc' = "render" /\ WxKey(coords_b) \in DOMAIN wxCache)
                => df_b' = wxCache[WxKey(coords_b)].value
         ]_vars

\* Both cities resolved to the same place by one geocoding request, and both
\* series fetched by one archive request.
C4_Witness ==
    /\ pc = "render"
    /\ city_a = city_b
    /\ TruthyDict(coords_a)
    /\ geoReqs[city_a] = 1
    /\ wxReqs[WxKey(coords_a)] = 1
    /\ ~IsEmpty(df_b)

\* C5: a run that fetched both series and found one of them empty renders no
\* metric, chart or table; apart from the error messages of the helper
\* functions, the one element it emits is the "no data" warning.
C5_NoPartialRender ==
    (pc = "done" /\ runWxCalls = 2 /\ (IsEmpty(df_a) \/ IsEmpty(df_b))) =>
        /\ ~Emitted(IsRendered)
        /\ df_combined = EmptyFrame
        /\ SelectSeq(out, LAMBDA e : e.el # "error") = <<NoDataMsg>>

C5_Witness ==
    /\ pc = "done"
    /\ runWxCalls = 2
    /\ IsEmpty(df_a)
    /\ ~IsEmpty(df_b)
    /\ out = <<NoDataMsg>>

\* C6: the "no data" warning is emitted only for an empty series of a valid
\* response, never when a series is empty because its retrieval failed.
C6_WarningOnlyForEmptySeries ==
    (pc = "done" /\ Emitted(LAMBDA e : e = NoDataMsg)) =>
        /\ WxKey(coords_a) \notin wxFailed
        /\ WxKey(coords_b) \notin wxFailed

\* C7: no run ends in an unhandled exception, and every finished run has
\* emitted a message or a rendered result.
C7_NoUnhandledFault ==
    /\ pc # "crashed"
    /\ pc = "done" => Len(out) > 0

IsAscending(df) == \A i, j \in 1 .. Len(df) : i < j => df[i].Date <= df[j].Date

C9_MetricOnlyWithValues ==
    /\ \A df \in {df_a, df_b} : CountPresent(df) = 0 => Mean(df) = NaN
    /\ (pc = "done" /\ Emitted(LAMBDA e : e.el = "metric")) =>
          /\ CountPresent(df_a) > 0
          /\ CountPresent(df_b) > 0

\* C10: a call whose request failed is stored like any other: the name keeps
\* the result None (the argument tuple keeps the empty frame), later calls
\* with these arguments return it, and no further request is sent for them.
C10_FailuresMemoized ==
    /\ [](/\ \A n \in geoFailed : n \in DOMAIN geoCache /\ geoCache[n].value = None
          /\ \A k \in wxFailed : k \in DOMAIN wxCache /\ IsEmpty(wxCache[k].value))
    /\ [][/\ \A n \in geoFailed : geoReqs'[n] = geoReqs[n]
          /\ \A k \in wxFailed : wxReqs'[k] = wxReqs[k]
          /\ (pc = "geocode_a" /\ city_a \in geoFailed) => coords_a' = None
          /\ (pc = "geocode_b" /\ city_b \in geoFailed) => coords_b' = None
          /\ (pc = "resolved" /\ pc' = "fetch_b" /\ WxKey(coords_a) \in wxFailed)
                => IsEmpty(df_a')
          /\ (pc = "fetch_b" /\ pc' = "render" /\ WxKey(coords_b) \in wxFailed)
                => IsEmpty(df_b')
         ]_vars

\* The second call of a run found the failure of the first: one request for
\* the name both cities share, and the failure message shown twice.
C10_Witness ==
    /\ pc = "done"
    /\ city_a = city_b
    /\ city_a \in geoFailed
    /\ geoReqs[city_a] = 1
    /\ out = <<GeoErrorMsg(city_a), GeoErrorMsg(city_a),
               NotFoundMsg(city_a), NotFoundMsg(city_a)>>

====
